---------------------------- MODULE Spec2Model ----------------------------
(***************************************************************************)
(* Model of src/src/App.tsx: the folder-selection handler of the "Code     *)
(* Tree & Extractor" component, its tree renderer and its download         *)
(* handler.                                                                *)
(*                                                                         *)
(* Strings are sequences of UTF-16 code units (naturals), so that          *)
(* String.prototype.split, endsWith, length and the default                *)
(* Array.prototype.sort order are computed as JavaScript computes them.    *)
(***************************************************************************)
EXTENDS Integers, Sequences, FiniteSets, TLC

(***************************************************************************)
(* String primitives                                                       *)
(***************************************************************************)

\* '' (the empty string; falsy in JavaScript)
EmptyStr == << >>

\* the `||` of JavaScript on two strings: a when a is truthy (non-empty)
OrElse(a, b) == IF a # EmptyStr THEN a ELSE b

\* ch.repeat(n)
RECURSIVE Repeat(_, _)
Repeat(ch, n) == IF n <= 0 THEN EmptyStr ELSE <<ch>> \o Repeat(ch, n - 1)

\* fileName.endsWith(ext)
EndsWith(s, ext) ==
  /\ Len(ext) <= Len(s)
  /\ SubSeq(s, Len(s) - Len(ext) + 1, Len(s)) = ext

\* path.split('/'): the parts between the separators; ''.split('/') is ['']
RECURSIVE SplitFrom(_, _, _)
SplitFrom(s, i, cur) ==
  IF i > Len(s) THEN <<cur>>
  ELSE IF s[i] = 47 THEN <<cur>> \o SplitFrom(s, i + 1, EmptyStr)
  ELSE SplitFrom(s, i + 1, Append(cur, s[i]))

Split(s) == SplitFrom(s, 1, EmptyStr)

\* a < b in the order Array.prototype.sort() uses without a comparator:
\* code unit by code unit, a proper prefix first
RECURSIVE LexLess(_, _)
LexLess(a, b) ==
  IF a = EmptyStr THEN b # EmptyStr
  ELSE IF b = EmptyStr THEN FALSE
  ELSE IF a[1] # b[1] THEN a[1] < b[1]
  ELSE LexLess(Tail(a), Tail(b))

\* keys.sort(): the keys of a set in ascending order
RECURSIVE SortKeys(_)
SortKeys(S) ==
  IF S = {} THEN << >>
  ELSE LET m == CHOOSE x \in S : \A y \in S \ {x} : LexLess(x, y)
       IN  <<m>> \o SortKeys(S \ {m})

(***************************************************************************)
(* JavaScript objects.  The tree is built of object literals and nulls; a  *)
(* property read on an object literal also finds what the literal inherits *)
(* from Object.prototype, so the walk of generateTree can leave the tree   *)
(* and go on through the built-in objects (Object.prototype, its           *)
(* functions, Function.prototype, the constructors, number and string      *)
(* primitives), reading and writing their properties.  What it writes      *)
(* there stays for the life of the page.                                   *)
(***************************************************************************)

\* a value stored in a property by generateTree: null (a file), or an object
\* literal with its own string keys in insertion order
NullNode == [isNull |-> TRUE, keys |-> << >>, val |-> << >>]

EmptyObj == [isNull |-> FALSE, keys |-> << >>, val |-> << >>]

\* k is an own property of obj
HasOwn(obj, k) == \E i \in 1..Len(obj.keys) : obj.keys[i] = k

\* obj[k] = v: a new key goes last, an existing key keeps its place
SetKey(obj, k, v) ==
  [isNull |-> FALSE,
   keys   |-> IF HasOwn(obj, k) THEN obj.keys ELSE Append(obj.keys, k),
   val    |-> [x \in DOMAIN obj.val \cup {k} |-> IF x = k THEN v ELSE obj.val[x]]]

\* the object the keys of `path` lead to from obj
RECURSIVE GetAt(_, _)
GetAt(obj, path) ==
  IF path = << >> THEN obj ELSE GetAt(obj.val[path[1]], Tail(path))

\* obj after the property k of the object at `path` is set to v
RECURSIVE SetAt(_, _, _, _)
SetAt(obj, path, k, v) ==
  IF path = << >> THEN SetKey(obj, k, v)
  ELSE SetKey(obj, path[1], SetAt(obj.val[path[1]], Tail(path), k, v))

\* '4294967294', 2^32 - 2: the largest array index
MaxArrayIndex == <<52, 50, 57, 52, 57, 54, 55, 50, 57, 52>>

\* an integer-like key ("0", "7", "12", not "01", at most 4294967294):
\* Object.keys lists these first, in ascending numeric order, before the
\* other keys
IsArrayIndex(k) ==
  /\ k # EmptyStr
  /\ \A i \in 1..Len(k) : k[i] >= 48 /\ k[i] <= 57
  /\ (Len(k) > 1 => k[1] # 48)
  /\ \/ Len(k) < Len(MaxArrayIndex)
     \/ Len(k) = Len(MaxArrayIndex) /\ ~LexLess(MaxArrayIndex, k)

\* a < b as numbers, for integer-like keys: the shorter is the smaller, and
\* keys of one length compare digit by digit
NumLess(a, b) == Len(a) < Len(b) \/ (Len(a) = Len(b) /\ LexLess(a, b))

RECURSIVE SortNum(_)
SortNum(S) ==
  IF S = {} THEN << >>
  ELSE LET m == CHOOSE x \in S : \A y \in S \ {x} : NumLess(x, y)
       IN  <<m>> \o SortNum(S \ {m})

\* Object.keys(obj)
ObjectKeys(obj) ==
  SortNum({obj.keys[i] : i \in {j \in 1..Len(obj.keys) : IsArrayIndex(obj.keys[j])}})
    \o SelectSeq(obj.keys, LAMBDA k : ~IsArrayIndex(k))

(***************************************************************************)
(* The built-in objects a property read can reach from an object literal.  *)
(* One is named by its owner and, for a function that is a property of the *)
(* owner, the function's name: Id("Object.prototype", << >>) is            *)
(* Object.prototype, Id("Object.prototype", 'toString') its toString.      *)
(***************************************************************************)

Id(own, nm) == [own |-> own, nm |-> nm]

\* the root object literal of one call of generateTree
RootId == Id("root", << >>)

ObjectPrototype   == Id("Object.prototype", << >>)
FunctionPrototype == Id("Function.prototype", << >>)
NumberPrototype   == Id("Number.prototype", << >>)
StringPrototype   == Id("String.prototype", << >>)
ObjectCtor        == Id("Object", << >>)
FunctionCtor      == Id("Function", << >>)
NumberCtor        == Id("Number", << >>)
StringCtor        == Id("String", << >>)

\* a function-valued property nm of the built-in `own`, with the function's
\* length (its name is nm)
Method(own, len, nm) == [own |-> own, len |-> len, nm |-> nm, fn |-> nm]

\* a property nm that holds the function named fn of the same owner
Alias(own, len, nm, fn) == [own |-> own, len |-> len, nm |-> nm, fn |-> fn]

\* the function-valued properties of the built-in objects, as V8 defines them

BuiltinMethods ==
  { Method("Object.prototype", 2, <<95, 95, 100, 101, 102, 105, 110, 101, 71, 101, 116, 116, 101, 114, 95, 95>>),
        \* __defineGetter__
    Method("Object.prototype", 2, <<95, 95, 100, 101, 102, 105, 110, 101, 83, 101, 116, 116, 101, 114, 95, 95>>),
        \* __defineSetter__
    Method("Object.prototype", 1, <<104, 97, 115, 79, 119, 110, 80, 114, 111, 112, 101, 114, 116, 121>>),
        \* hasOwnProperty
    Method("Object.prototype", 1, <<95, 95, 108, 111, 111, 107, 117, 112, 71, 101, 116, 116, 101, 114, 95, 95>>),
        \* __lookupGetter__
    Method("Object.prototype", 1, <<95, 95, 108, 111, 111, 107, 117, 112, 83, 101, 116, 116, 101, 114, 95, 95>>),
        \* __lookupSetter__
    Method("Object.prototype", 1, <<105, 115, 80, 114, 111, 116, 111, 116, 121, 112, 101, 79, 102>>),
        \* isPrototypeOf
    Method("Object.prototype", 1, <<112, 114, 111, 112, 101, 114, 116, 121, 73, 115, 69, 110, 117, 109, 101, 114, 97, 98, 108, 101>>),
        \* propertyIsEnumerable
    Method("Object.prototype", 0, <<116, 111, 83, 116, 114, 105, 110, 103>>),
        \* toString
    Method("Object.prototype", 0, <<118, 97, 108, 117, 101, 79, 102>>),
        \* valueOf
    Method("Object.prototype", 0, <<116, 111, 76, 111, 99, 97, 108, 101, 83, 116, 114, 105, 110, 103>>),
        \* toLocaleString
    Method("Function.prototype", 2, <<97, 112, 112, 108, 121>>),
        \* apply
    Method("Function.prototype", 1, <<98, 105, 110, 100>>),
        \* bind
    Method("Function.prototype", 1, <<99, 97, 108, 108>>),
        \* call
    Method("Function.prototype", 0, <<116, 111, 83, 116, 114, 105, 110, 103>>),
        \* toString
    Method("Number.prototype", 1, <<116, 111, 69, 120, 112, 111, 110, 101, 110, 116, 105, 97, 108>>),
        \* toExponential
    Method("Number.prototype", 1, <<116, 111, 70, 105, 120, 101, 100>>),
        \* toFixed
    Method("Number.prototype", 0, <<116, 111, 76, 111, 99, 97, 108, 101, 83, 116, 114, 105, 110, 103>>),
        \* toLocaleString
    Method("Number.prototype", 1, <<116, 111, 80, 114, 101, 99, 105, 115, 105, 111, 110>>),
        \* toPrecision
    Method("Number.prototype", 1, <<116, 111, 83, 116, 114, 105, 110, 103>>),
        \* toString
    Method("Number.prototype", 0, <<118, 97, 108, 117, 101, 79, 102>>),
        \* valueOf
    Method("String.prototype", 1, <<97, 110, 99, 104, 111, 114>>),
        \* anchor
    Method("String.prototype", 1, <<97, 116>>),
        \* at
    Method("String.prototype", 0, <<98, 105, 103>>),
        \* big
    Method("String.prototype", 0, <<98, 108, 105, 110, 107>>),
        \* blink
    Method("String.prototype", 0, <<98, 111, 108, 100>>),
        \* bold
    Method("String.prototype", 1, <<99, 104, 97, 114, 65, 116>>),
        \* charAt
    Method("String.prototype", 1, <<99, 104, 97, 114, 67, 111, 100, 101, 65, 116>>),
        \* charCodeAt
    Method("String.prototype", 1, <<99, 111, 100, 101, 80, 111, 105, 110, 116, 65, 116>>),
        \* codePointAt
    Method("String.prototype", 1, <<99, 111, 110, 99, 97, 116>>),
        \* concat
    Method("String.prototype", 1, <<101, 110, 100, 115, 87, 105, 116, 104>>),
        \* endsWith
    Method("String.prototype", 0, <<102, 105, 120, 101, 100>>),
        \* fixed
    Method("String.prototype", 1, <<102, 111, 110, 116, 99, 111, 108, 111, 114>>),
        \* fontcolor
    Method("String.prototype", 1, <<102, 111, 110, 116, 115, 105, 122, 101>>),
        \* fontsize
    Method("String.prototype", 1, <<105, 110, 99, 108, 117, 100, 101, 115>>),
        \* includes
    Method("String.prototype", 1, <<105, 110, 100, 101, 120, 79, 102>>),
        \* indexOf
    Method("String.prototype", 0, <<105, 115, 87, 101, 108, 108, 70, 111, 114, 109, 101, 100>>),
        \* isWellFormed
    Method("String.prototype", 0, <<105, 116, 97, 108, 105, 99, 115>>),
        \* italics
    Method("String.prototype", 1, <<108, 97, 115, 116, 73, 110, 100, 101, 120, 79, 102>>),
        \* lastIndexOf
    Method("String.prototype", 1, <<108, 105, 110, 107>>),
        \* link
    Method("String.prototype", 1, <<108, 111, 99, 97, 108, 101, 67, 111, 109, 112, 97, 114, 101>>),
        \* localeCompare
    Method("String.prototype", 1, <<109, 97, 116, 99, 104>>),
        \* match
    Method("String.prototype", 1, <<109, 97, 116, 99, 104, 65, 108, 108>>),
        \* matchAll
    Method("String.prototype", 0, <<110, 111, 114, 109, 97, 108, 105, 122, 101>>),
        \* normalize
    Method("String.prototype", 1, <<112, 97, 100, 69, 110, 100>>),
        \* padEnd
    Method("String.prototype", 1, <<112, 97, 100, 83, 116, 97, 114, 116>>),
        \* padStart
    Method("String.prototype", 1, <<114, 101, 112, 101, 97, 116>>),
        \* repeat
    Method("String.prototype", 2, <<114, 101, 112, 108, 97, 99, 101>>),
        \* replace
    Method("String.prototype", 2, <<114, 101, 112, 108, 97, 99, 101, 65, 108, 108>>),
        \* replaceAll
    Method("String.prototype", 1, <<115, 101, 97, 114, 99, 104>>),
        \* search
    Method("String.prototype", 2, <<115, 108, 105, 99, 101>>),
        \* slice
    Method("String.prototype", 0, <<115, 109, 97, 108, 108>>),
        \* small
    Method("String.prototype", 2, <<115, 112, 108, 105, 116>>),
        \* split
    Method("String.prototype", 1, <<115, 116, 97, 114, 116, 115, 87, 105, 116, 104>>),
        \* startsWith
    Method("String.prototype", 0, <<115, 116, 114, 105, 107, 101>>),
        \* strike
    Method("String.prototype", 0, <<115, 117, 98>>),
        \* sub
    Method("String.prototype", 2, <<115, 117, 98, 115, 116, 114>>),
        \* substr
    Method("String.prototype", 2, <<115, 117, 98, 115, 116, 114, 105, 110, 103>>),
        \* substring
    Method("String.prototype", 0, <<115, 117, 112>>),
        \* sup
    Method("String.prototype", 0, <<116, 111, 76, 111, 99, 97, 108, 101, 76, 111, 119, 101, 114, 67, 97, 115, 101>>),
        \* toLocaleLowerCase
    Method("String.prototype", 0, <<116, 111, 76, 111, 99, 97, 108, 101, 85, 112, 112, 101, 114, 67, 97, 115, 101>>),
        \* toLocaleUpperCase
    Method("String.prototype", 0, <<116, 111, 76, 111, 119, 101, 114, 67, 97, 115, 101>>),
        \* toLowerCase
    Method("String.prototype", 0, <<116, 111, 83, 116, 114, 105, 110, 103>>),
        \* toString
    Method("String.prototype", 0, <<116, 111, 85, 112, 112, 101, 114, 67, 97, 115, 101>>),
        \* toUpperCase
    Method("String.prototype", 0, <<116, 111, 87, 101, 108, 108, 70, 111, 114, 109, 101, 100>>),
        \* toWellFormed
    Method("String.prototype", 0, <<116, 114, 105, 109>>),
        \* trim
    Method("String.prototype", 0, <<116, 114, 105, 109, 69, 110, 100>>),
        \* trimEnd
    Alias("String.prototype", 0, <<116, 114, 105, 109, 76, 101, 102, 116>>,
          <<116, 114, 105, 109, 83, 116, 97, 114, 116>>),
        \* trimLeft, the function trimStart
    Alias("String.prototype", 0, <<116, 114, 105, 109, 82, 105, 103, 104, 116>>,
          <<116, 114, 105, 109, 69, 110, 100>>),
        \* trimRight, the function trimEnd
    Method("String.prototype", 0, <<116, 114, 105, 109, 83, 116, 97, 114, 116>>),
        \* trimStart
    Method("String.prototype", 0, <<118, 97, 108, 117, 101, 79, 102>>),
        \* valueOf
    Method("Object", 2, <<97, 115, 115, 105, 103, 110>>),
        \* assign
    Method("Object", 2, <<99, 114, 101, 97, 116, 101>>),
        \* create
    Method("Object", 2, <<100, 101, 102, 105, 110, 101, 80, 114, 111, 112, 101, 114, 116, 105, 101, 115>>),
        \* defineProperties
    Method("Object", 3, <<100, 101, 102, 105, 110, 101, 80, 114, 111, 112, 101, 114, 116, 121>>),
        \* defineProperty
    Method("Object", 1, <<101, 110, 116, 114, 105, 101, 115>>),
        \* entries
    Method("Object", 1, <<102, 114, 101, 101, 122, 101>>),
        \* freeze
    Method("Object", 1, <<102, 114, 111, 109, 69, 110, 116, 114, 105, 101, 115>>),
        \* fromEntries
    Method("Object", 2, <<103, 101, 116, 79, 119, 110, 80, 114, 111, 112, 101, 114, 116, 121, 68, 101, 115, 99, 114, 105, 112, 116, 111, 114>>),
        \* getOwnPropertyDescriptor
    Method("Object", 1, <<103, 101, 116, 79, 119, 110, 80, 114, 111, 112, 101, 114, 116, 121, 68, 101, 115, 99, 114, 105, 112, 116, 111, 114, 115>>),
        \* getOwnPropertyDescriptors
    Method("Object", 1, <<103, 101, 116, 79, 119, 110, 80, 114, 111, 112, 101, 114, 116, 121, 78, 97, 109, 101, 115>>),
        \* getOwnPropertyNames
    Method("Object", 1, <<103, 101, 116, 79, 119, 110, 80, 114, 111, 112, 101, 114, 116, 121, 83, 121, 109, 98, 111, 108, 115>>),
        \* getOwnPropertySymbols
    Method("Object", 1, <<103, 101, 116, 80, 114, 111, 116, 111, 116, 121, 112, 101, 79, 102>>),
        \* getPrototypeOf
    Method("Object", 2, <<104, 97, 115, 79, 119, 110>>),
        \* hasOwn
    Method("Object", 2, <<105, 115>>),
        \* is
    Method("Object", 1, <<105, 115, 69, 120, 116, 101, 110, 115, 105, 98, 108, 101>>),
        \* isExtensible
    Method("Object", 1, <<105, 115, 70, 114, 111, 122, 101, 110>>),
        \* isFrozen
    Method("Object", 1, <<105, 115, 83, 101, 97, 108, 101, 100>>),
        \* isSealed
    Method("Object", 1, <<107, 101, 121, 115>>),
        \* keys
    Method("Object", 1, <<112, 114, 101, 118, 101, 110, 116, 69, 120, 116, 101, 110, 115, 105, 111, 110, 115>>),
        \* preventExtensions
    Method("Object", 1, <<115, 101, 97, 108>>),
        \* seal
    Method("Object", 2, <<115, 101, 116, 80, 114, 111, 116, 111, 116, 121, 112, 101, 79, 102>>),
        \* setPrototypeOf
    Method("Object", 1, <<118, 97, 108, 117, 101, 115>>),
        \* values
    Method("Number", 1, <<105, 115, 70, 105, 110, 105, 116, 101>>),
        \* isFinite
    Method("Number", 1, <<105, 115, 73, 110, 116, 101, 103, 101, 114>>),
        \* isInteger
    Method("Number", 1, <<105, 115, 78, 97, 78>>),
        \* isNaN
    Method("Number", 1, <<105, 115, 83, 97, 102, 101, 73, 110, 116, 101, 103, 101, 114>>),
        \* isSafeInteger
    Method("Number", 1, <<112, 97, 114, 115, 101, 70, 108, 111, 97, 116>>),
        \* parseFloat
    Method("Number", 2, <<112, 97, 114, 115, 101, 73, 110, 116>>),
        \* parseInt
    Method("String", 1, <<102, 114, 111, 109, 67, 104, 97, 114, 67, 111, 100, 101>>),
        \* fromCharCode
    Method("String", 1, <<102, 114, 111, 109, 67, 111, 100, 101, 80, 111, 105, 110, 116>>),
        \* fromCodePoint
    Method("String", 1, <<114, 97, 119>>) }
        \* raw

NumberConstants ==
  { [truthy |-> TRUE, nm |-> <<69, 80, 83, 73, 76, 79, 78>>],   \* EPSILON
    [truthy |-> TRUE, nm |-> <<77, 65, 88, 95, 83, 65, 70, 69, 95, 73, 78, 84, 69, 71, 69, 82>>],   \* MAX_SAFE_INTEGER
    [truthy |-> TRUE, nm |-> <<77, 65, 88, 95, 86, 65, 76, 85, 69>>],   \* MAX_VALUE
    [truthy |-> TRUE, nm |-> <<77, 73, 78, 95, 83, 65, 70, 69, 95, 73, 78, 84, 69, 71, 69, 82>>],   \* MIN_SAFE_INTEGER
    [truthy |-> TRUE, nm |-> <<77, 73, 78, 95, 86, 65, 76, 85, 69>>],   \* MIN_VALUE
    [truthy |-> FALSE, nm |-> <<78, 97, 78>>],   \* NaN
    [truthy |-> TRUE, nm |-> <<78, 69, 71, 65, 84, 73, 86, 69, 95, 73, 78, 70, 73, 78, 73, 84, 89>>],   \* NEGATIVE_INFINITY
    [truthy |-> TRUE, nm |-> <<80, 79, 83, 73, 84, 73, 86, 69, 95, 73, 78, 70, 73, 78, 73, 84, 89>>] }   \* POSITIVE_INFINITY

Name_length == <<108, 101, 110, 103, 116, 104>>
Name_name == <<110, 97, 109, 101>>
Name_prototype == <<112, 114, 111, 116, 111, 116, 121, 112, 101>>
Name_constructor == <<99, 111, 110, 115, 116, 114, 117, 99, 116, 111, 114>>
Name_proto == <<95, 95, 112, 114, 111, 116, 111, 95, 95>>
Name_caller == <<99, 97, 108, 108, 101, 114>>
Name_arguments == <<97, 114, 103, 117, 109, 101, 110, 116, 115>>
Name_Object == <<79, 98, 106, 101, 99, 116>>
Name_Function == <<70, 117, 110, 99, 116, 105, 111, 110>>
Name_Number == <<78, 117, 109, 98, 101, 114>>
Name_String == <<83, 116, 114, 105, 110, 103>>


\* the names every object literal inherits from Object.prototype as the page
\* starts
ProtoKeys ==
  {m.nm : m \in {x \in BuiltinMethods : x.own = "Object.prototype"}}
    \cup {Name_constructor, Name_proto}

\* the constructor of a prototype object, the prototype object of a
\* constructor
Counterpart(id) ==
  CASE id = ObjectPrototype   -> ObjectCtor
    [] id = FunctionPrototype -> FunctionCtor
    [] id = NumberPrototype   -> NumberCtor
    [] id = StringPrototype   -> StringCtor
    [] id = ObjectCtor        -> ObjectPrototype
    [] id = FunctionCtor      -> FunctionPrototype
    [] id = NumberCtor        -> NumberPrototype
    [] id = StringCtor        -> StringPrototype

IsPrototypeObject(id) ==
  id \in {ObjectPrototype, FunctionPrototype, NumberPrototype, StringPrototype}

IsCtor(id) == id \in {ObjectCtor, FunctionCtor, NumberCtor, StringCtor}

\* the built-in is a function: a method, a constructor, or Function.prototype
IsFunction(id) == id.nm # << >> \/ IsCtor(id) \/ id = FunctionPrototype

\* fn.length
FnLength(id) ==
  IF id.nm # << >>
  THEN (CHOOSE m \in BuiltinMethods : m.own = id.own /\ m.fn = id.nm).len
  ELSE IF IsCtor(id) THEN 1 ELSE 0

\* fn.name
FnName(id) ==
  CASE id.nm # << >>    -> id.nm
    [] id = ObjectCtor   -> Name_Object
    [] id = FunctionCtor -> Name_Function
    [] id = NumberCtor   -> Name_Number
    [] id = StringCtor   -> Name_String
    [] OTHER             -> EmptyStr

\* the objects a built-in object inherits from, nearest first
Ancestors(id) ==
  IF id = ObjectPrototype THEN << >>
  ELSE IF IsPrototypeObject(id) THEN <<ObjectPrototype>>
  ELSE <<FunctionPrototype, ObjectPrototype>>

(***************************************************************************)
(* Values and property reads                                               *)
(***************************************************************************)

\* what `current` can hold: an object (the root, a built-in, or the object
\* literal the keys of `path` lead to from one of them), a number, a string,
\* or null/undefined
Obj(id, path) == [k |-> "obj", id |-> id, path |-> path, s |-> EmptyStr, truthy |-> TRUE]

NumVal(truthy) ==
  [k |-> "num", id |-> RootId, path |-> << >>, s |-> EmptyStr, truthy |-> truthy]

StrVal(s) ==
  [k |-> "str", id |-> RootId, path |-> << >>, s |-> s, truthy |-> s # EmptyStr]

NullVal == [k |-> "null", id |-> RootId, path |-> << >>, s |-> EmptyStr, truthy |-> FALSE]

\* what a property read finds: nothing; a writable data property that holds
\* null or an object literal; a property of a built-in that an assignment
\* cannot change; an accessor whose getter throws; the __proto__ accessor
Absent        == [r |-> "absent", v |-> NullVal]
Data(v)       == [r |-> "data", v |-> v]
Fixed(v)      == [r |-> "fixed", v |-> v]
Thrower       == [r |-> "throw", v |-> NullVal]
ProtoAccessor == [r |-> "proto", v |-> NullVal]

\* the names the built-in objects have properties of
BuiltinNames ==
  {m.nm : m \in BuiltinMethods} \cup {c.nm : c \in NumberConstants}
    \cup {Name_length, Name_name, Name_prototype, Name_constructor, Name_proto,
          Name_caller, Name_arguments}

\* the own property p of the built-in object id, as the engine defines it
BuiltinOwn(id, p) ==
  IF p \notin BuiltinNames THEN Absent
  ELSE IF IsFunction(id) /\ p = Name_length THEN Fixed(NumVal(FnLength(id) > 0))
  ELSE IF IsFunction(id) /\ p = Name_name THEN Fixed(StrVal(FnName(id)))
  ELSE IF id.nm # << >> THEN Absent
  ELSE IF IsCtor(id) /\ p = Name_prototype THEN Fixed(Obj(Counterpart(id), << >>))
  ELSE IF IsPrototypeObject(id) /\ p = Name_constructor
       THEN Fixed(Obj(Counterpart(id), << >>))
  ELSE IF id = ObjectPrototype /\ p = Name_proto THEN ProtoAccessor
  ELSE IF id = FunctionPrototype /\ p \in {Name_caller, Name_arguments} THEN Thrower
  ELSE IF id = StringPrototype /\ p = Name_length THEN Fixed(NumVal(FALSE))
  ELSE IF id = NumberCtor /\ \E c \in NumberConstants : c.nm = p
       THEN Fixed(NumVal((CHOOSE c \in NumberConstants : c.nm = p).truthy))
  ELSE IF \E m \in BuiltinMethods : m.own = id.own /\ m.nm = p
       THEN Fixed(Obj(Id(id.own, (CHOOSE m \in BuiltinMethods :
                                    m.own = id.own /\ m.nm = p).fn), << >>))
  ELSE Absent

\* the properties the page has added to the built-in object id
Additions(added, id) == IF id \in DOMAIN added THEN added[id] ELSE EmptyObj

\* the own properties generateTree has given the object `current`
NodeOf(heap, current) ==
  GetAt(IF current.id = RootId THEN heap.root ELSE Additions(heap.builtins, current.id),
        current.path)

\* the number an integer-like key of one or two digits names
SmallIndex(p) == IF Len(p) = 1 THEN p[1] - 48 ELSE (p[1] - 48) * 10 + (p[2] - 48)

\* the own property p of the value `current`
OwnProp(heap, current, p) ==
  CASE current.k = "obj" ->
         LET node == NodeOf(heap, current)
         IN  IF HasOwn(node, p)
             THEN IF node.val[p].isNull THEN Data(NullVal)
                  ELSE Data(Obj(current.id, Append(current.path, p)))
             ELSE IF current.id # RootId /\ current.path = << >>
                  THEN BuiltinOwn(current.id, p)
                  ELSE Absent
    [] current.k = "str" ->
         IF p = Name_length THEN Fixed(NumVal(Len(current.s) > 0))
         ELSE IF IsArrayIndex(p) /\ Len(p) <= 2 /\ SmallIndex(p) < Len(current.s)
              THEN Fixed(StrVal(<<current.s[SmallIndex(p) + 1]>>))
              ELSE Absent
    [] OTHER -> Absent

\* the built-in objects the value `current` inherits from, nearest first
ProtoChain(current) ==
  CASE current.k = "num" -> <<NumberPrototype, ObjectPrototype>>
    [] current.k = "str" -> <<StringPrototype, ObjectPrototype>>
    [] current.k = "obj" ->
         IF current.id # RootId /\ current.path = << >> THEN Ancestors(current.id)
         ELSE <<ObjectPrototype>>
    [] OTHER -> << >>

\* the objects a read of a property of `current` asks in turn: the value
\* itself, then the objects it inherits from
Holders(current) ==
  <<current>> \o [i \in 1..Len(ProtoChain(current)) |-> Obj(ProtoChain(current)[i], << >>)]

\* the property p as the objects of `chain` from position i on have it: d,
\* what the object at position i - 1 has, when that is a property
RECURSIVE Inherited(_, _, _, _, _)
Inherited(d, heap, chain, i, p) ==
  IF d.r # "absent" \/ i > Len(chain) THEN d
  ELSE Inherited(OwnProp(heap, chain[i], p), heap, chain, i + 1, p)

\* the property current[part] names: an own one, or the nearest inherited
Lookup(heap, current, part) == Inherited(Absent, heap, Holders(current), 1, part)

\* the value of current[part] for the property d found: the __proto__ getter
\* gives the prototype of `current`, null for Object.prototype
ValueOf(d, current) ==
  IF d.r # "proto" THEN d.v
  ELSE IF ProtoChain(current) = << >> THEN NullVal
  ELSE Obj(ProtoChain(current)[1], << >>)

\* !current[part]
Falsy(d, current) == ~ValueOf(d, current).truthy

\* current[part] = v, on an object
WriteOwn(heap, current, part, v) ==
  IF current.id = RootId
  THEN [heap EXCEPT !.root = SetAt(heap.root, current.path, part, v)]
  ELSE [heap EXCEPT !.builtins =
          [x \in DOMAIN heap.builtins \cup {current.id} |->
             IF x = current.id
             THEN SetAt(Additions(heap.builtins, current.id), current.path, part, v)
             ELSE heap.builtins[x]]]

(***************************************************************************)
(* generateTree                                                            *)
(***************************************************************************)

\* (file as any).webkitRelativePath || file.name
PathOf(file) == OrElse(file.webkitRelativePath, file.name)

\* the body of parts.forEach for one part (lines 88-91), d being the property
\* current[part] names: the heap and the `current` it leaves.  The module is
\* strict code, so an assignment that cannot be made throws a TypeError:
\* heap.threw.
VisitFound(heap, current, part, isLast, d) ==
  LET Throw == [heap |-> [heap EXCEPT !.threw = TRUE], current |-> NullVal]
  IN  IF d.r = "throw" THEN Throw
      ELSE IF ~Falsy(d, current) THEN [heap |-> heap, current |-> ValueOf(d, current)]
      ELSE IF current.k # "obj" THEN Throw       \* no property is created on a primitive
      ELSE IF d.r = "fixed" THEN Throw           \* a read-only property
      ELSE IF d.r = "proto"                      \* Object.prototype.__proto__ = ...
           THEN IF isLast THEN [heap |-> heap, current |-> NullVal] ELSE Throw
      ELSE [heap    |-> WriteOwn(heap, current, part,
                                 IF isLast THEN NullNode ELSE EmptyObj),
            current |-> IF isLast THEN NullVal
                        ELSE Obj(current.id, Append(current.path, part))]

\* the body of parts.forEach for one part
VisitPart(heap, current, part, isLast) ==
  VisitFound(heap, current, part, isLast, Lookup(heap, current, part))

\* let current = root
AtRoot(heap) == [heap |-> heap, current |-> Obj(RootId, << >>)]

\* parts.forEach((part, index) => ...) from position index on, st holding
\* the heap and `current`
RECURSIVE InsertParts(_, _, _)
InsertParts(st, parts, index) ==
  IF index > Len(parts) \/ st.heap.threw THEN st.heap
  ELSE InsertParts(VisitPart(st.heap, st.current, parts[index], index = Len(parts)),
                   parts, index + 1)

\* files.forEach(file => ...) from file i on
RECURSIVE BuildRoot(_, _, _)
BuildRoot(files, i, heap) ==
  IF i > Len(files) \/ heap.threw THEN heap
  ELSE BuildRoot(files, i + 1, InsertParts(AtRoot(heap), Split(PathOf(files[i])), 1))

\* const root = {}, with what the page has added to the built-ins so far
NewHeap(added) == [root |-> EmptyObj, builtins |-> added, threw |-> FALSE]


ConnLast == <<9492, 9472, 9472, 32>>    \* '└── '
ConnMid  == <<9500, 9472, 9472, 32>>    \* '├── '
PadLast  == <<32, 32, 32, 32>>          \* '    '
PadMid   == <<9474, 32, 32, 32>>        \* '│   '

\* Object.keys(obj).sort(): the sort makes the order Object.keys lists the
\* keys in irrelevant, so the keys are sorted from their set
SortedKeys(obj) == SortKeys({obj.keys[i] : i \in 1..Len(obj.keys)})

\* keys.forEach((key, index) => ...) of buildTreeString, from position index
RECURSIVE BuildLines(_, _, _, _)
BuildLines(obj, prefix, keys, index) ==
  IF index > Len(keys) THEN EmptyStr
  ELSE LET key    == keys[index]
           isLast == index = Len(keys)
           line   == prefix \o (IF isLast THEN ConnLast ELSE ConnMid) \o key \o <<10>>
           sub    == IF ~obj.val[key].isNull
                     THEN LET newPrefix == prefix \o (IF isLast THEN PadLast ELSE PadMid)
                          IN  BuildLines(obj.val[key], newPrefix, SortedKeys(obj.val[key]), 1)
                     ELSE EmptyStr
       IN  line \o sub \o BuildLines(obj, prefix, keys, index + 1)

buildTreeString(obj, prefix) == BuildLines(obj, prefix, SortedKeys(obj), 1)

\* Object.keys(root)[0]: the first own key of root; when root has no own key
\* the array is empty and the read of its index 0 is answered by what the
\* array inherits, a property '0' of Object.prototype if the page has added
\* one (Array.prototype has none), otherwise undefined
rootKey(heap) ==
  IF ObjectKeys(heap.root) # << >> THEN StrVal(ObjectKeys(heap.root)[1])
  ELSE Inherited(Absent, heap, <<Obj(ObjectPrototype, << >>)>>, 1, <<48>>).v

\* '[object Object]'
ObjectString == <<91, 111, 98, 106, 101, 99, 116, 32, 79, 98, 106, 101, 99, 116, 93>>

\* `${key}`, and the property name key stands for in root[key]: the string
\* itself, '[object Object]' for an object literal
KeyString(key) == IF key.k = "str" THEN key.s ELSE ObjectString

\* `${rootKey}\n${buildTreeString(child)}`: Object.keys throws a TypeError
\* when child is null or undefined
TitledTree(heap, title, child) ==
  IF child.k # "obj" THEN [threw |-> TRUE, str |-> EmptyStr]
  ELSE [threw |-> FALSE,
        str |-> title \o <<10>> \o buildTreeString(NodeOf(heap, child), EmptyStr)]

\* root[name], own or inherited
RootChild(heap, name) ==
  ValueOf(Lookup(heap, AtRoot(heap).current, name), AtRoot(heap).current)

\* lines 115-117, key being rootKey
RenderKey(heap, key) ==
  IF ~key.truthy THEN [threw |-> FALSE, str |-> EmptyStr]
  ELSE TitledTree(heap, KeyString(key), RootChild(heap, KeyString(key)))

\* the end of generateTree, from the heap files.forEach left: [threw |->
\* FALSE, str |-> the string returned], or threw |-> TRUE for a TypeError
RenderRoot(heap) == RenderKey(heap, rootKey(heap))

\* what generateTree leaves, from the heap files.forEach left: whether it
\* threw, the string it returned, and the additions to the built-ins
TreeResult(heap) ==
  LET res == RenderRoot(heap)
  IN  [threw    |-> heap.threw \/ res.threw,
       str      |-> IF heap.threw THEN EmptyStr ELSE res.str,
       builtins |-> heap.builtins]

\* generateTree(files) on a page whose built-ins hold the additions `added`
generateTree(files, added) == TreeResult(BuildRoot(files, 1, NewHeap(added)))

(***************************************************************************)
(* The content aggregation of handleFolderSelect                           *)
(***************************************************************************)

allowedExtensions ==
  << <<46, 99, 115, 115>>,                          \* '.css'
     <<46, 112, 104, 112>>,                         \* '.php'
     <<46, 106, 115>>,                              \* '.js'
     <<46, 104, 116, 97, 99, 99, 101, 115, 115>>,   \* '.htaccess'
     <<46, 104, 116, 109, 108>>,                    \* '.html'
     <<46, 116, 115>>,                              \* '.ts'
     <<46, 116, 115, 120>>,                         \* '.tsx'
     <<46, 106, 115, 111, 110>> >>                  \* '.json'

\* mutant of isAllowed: startsWith in the place of endsWith
isAllowed_StartsWith(fileName) ==
  \/ \E i \in 1..Len(allowedExtensions) :
        /\ Len(allowedExtensions[i]) <= Len(fileName)
        /\ SubSeq(fileName, 1, Len(allowedExtensions[i])) = allowedExtensions[i]
  \/ fileName = <<46, 104, 116, 97, 99, 99, 101, 115, 115>>

\* allowedExtensions.some(ext => fileName.endsWith(ext)) || fileName === '.htaccess'
isAllowed(fileName) ==
  \/ \E i \in 1..Len(allowedExtensions) : EndsWith(fileName, allowedExtensions[i])
  \/ fileName = <<46, 104, 116, 97, 99, 99, 101, 115, 115>>

\* the position of the first file the for-of loop reads at or after `from`
\* (0: none is left)
RECURSIVE NextAllowed(_, _)
NextAllowed(files, from) ==
  IF from > Len(files) THEN 0
  ELSE IF isAllowed(files[from].name) THEN from
  ELSE NextAllowed(files, from + 1)

\* the FileInfo pushed for a file whose read gave `content`
FileInfo(file, content) ==
  [path |-> PathOf(file), content |-> content, name |-> file.name]

\* `DIRECTORY TREE:\n${tree}\n\n${'='.repeat(50)}\n\n`
DocHeader(tr) ==
  <<68, 73, 82, 69, 67, 84, 79, 82, 89, 32, 84, 82, 69, 69, 58, 10>> \o tr
    \o <<10, 10>> \o Repeat(61, 50) \o <<10, 10>>

\* what the forEach callback appends for extractedFiles[index] (1-based here)
FileBlock(extracted, index) ==
  LET file == extracted[index]
  IN  <<70, 73, 76, 69, 32, 80, 65, 84, 72, 58, 32>> \o file.path \o <<10>>
        \o Repeat(45, Len(file.path) + 11) \o <<10>>
        \o file.content
        \o (IF index < Len(extracted) THEN Repeat(10, 11) ELSE EmptyStr)

RECURSIVE FileBlocks(_, _)
FileBlocks(extracted, index) ==
  IF index > Len(extracted) THEN EmptyStr
  ELSE FileBlock(extracted, index) \o FileBlocks(extracted, index + 1)

\* finalDoc
FinalDoc(tr, extracted) == DocHeader(tr) \o FileBlocks(extracted, 1)

(***************************************************************************)
(* Inputs                                                                  *)
(***************************************************************************)

MaxFiles == 3     \* the longest selection of the component's runs
MaxPaths == 3     \* the longest file list given to generateTree alone

File(rel, nm, txt) == [webkitRelativePath |-> rel, name |-> nm, content |-> txt]

\* r/a.js holding "x"
FileA == File(<<114, 47, 97, 46, 106, 115>>, <<97, 46, 106, 115>>, <<120>>)
\* r/s/.htaccess, an empty file
FileHt == File(<<114, 47, 115, 47, 46, 104, 116, 97, 99, 99, 101, 115, 115>>,
               <<46, 104, 116, 97, 99, 99, 101, 115, 115>>, EmptyStr)
\* r/__proto__/s/y.js holding "z": a file below a directory named __proto__
FileProto ==
  File(<<114, 47, 95, 95, 112, 114, 111, 116, 111, 95, 95, 47, 115, 47, 121, 46, 106, 115>>,
       <<121, 46, 106, 115>>, <<122>>)
\* notes.md holding "y;", picked where the platform gives no
\* webkitRelativePath
FileBare == File(EmptyStr, <<110, 111, 116, 101, 115, 46, 109, 100>>, <<121, 59>>)

FileUniverse == {FileA, FileHt, FileProto, FileBare}

\* the sequences of distinct elements of S of length at most n
SeqsNoRepeat(S, n) ==
  UNION {{f \in [1..k -> S] : \A i, j \in 1..k : i # j => f[i] # f[j]} : k \in 0..n}

\* event.target.files of a change event: empty when the dialog gave nothing
Selections == SeqsNoRepeat(FileUniverse, MaxFiles)

\* paths for generateTree alone: r/Z.js, r/b.js, r/s/a, r/s (a file named as
\* the directory s), r/constructor (a file named as a property every object
\* inherits), r/constructor/x (a path that goes on below that property),
\* r/__proto__/s/y.js (a path that goes on below Object.prototype),
\* r/toString/length (a path that ends at a read-only property), q/a (a
\* second root), 1/a (a root with an integer-like name, which Object.keys
\* lists first), __proto__/0/s and __proto__/[object Object]/x (paths that
\* leave root without a key and give Object.prototype the properties the
\* read of Object.keys(root)[0] and of root[rootKey] then find)
TreeUniverse ==
  { File(<<114, 47, 90, 46, 106, 115>>, <<90, 46, 106, 115>>, EmptyStr),
    File(<<114, 47, 98, 46, 106, 115>>, <<98, 46, 106, 115>>, EmptyStr),
    File(<<114, 47, 115, 47, 97>>, <<97>>, EmptyStr),
    File(<<114, 47, 115>>, <<115>>, EmptyStr),
    File(<<114, 47, 99, 111, 110, 115, 116, 114, 117, 99, 116, 111, 114>>,
         <<99, 111, 110, 115, 116, 114, 117, 99, 116, 111, 114>>, EmptyStr),
    File(<<114, 47, 99, 111, 110, 115, 116, 114, 117, 99, 116, 111, 114, 47, 120>>,
         <<120>>, EmptyStr),
    FileProto,
    File(<<114, 47, 116, 111, 83, 116, 114, 105, 110, 103, 47, 108, 101, 110, 103, 116, 104>>,
         <<108, 101, 110, 103, 116, 104>>, EmptyStr),
    File(<<113, 47, 97>>, <<97>>, EmptyStr),
    File(<<49, 47, 97>>, <<97>>, EmptyStr),
    File(<<95, 95, 112, 114, 111, 116, 111, 95, 95, 47, 48, 47, 115>>, <<115>>, EmptyStr),
    File(<<95, 95, 112, 114, 111, 116, 111, 95, 95, 47>> \o ObjectString \o <<47, 120>>,
         <<120>>, EmptyStr) }

TreeInputs == SeqsNoRepeat(TreeUniverse, MaxPaths) \ {<< >>}

(***************************************************************************)
(* State                                                                   *)
(***************************************************************************)

VARIABLES
  isProcessing,     \* useState(false)
  treeString,       \* useState('')
  combinedContent,  \* useState('')
  fileCount,        \* useState(0)
  view,             \* the state values of the render React committed last
  exiting,          \* the result section AnimatePresence keeps mounted while it exits
  pc,               \* "idle", or "await": handleFolderSelect is suspended at its await
  fileList,         \* the run's fileList (kept after the run for reference)
  tree,             \* the run's tree
  extractedFiles,   \* the run's extractedFiles
  idx,              \* the position in fileList of the file whose read is awaited
  pending,          \* the positions whose FileReader read is outstanding
  readLog,          \* the positions a read was started for in the latest run, in order
  failedIdx,        \* the position whose read failed in the latest run (0: none)
  outcome,          \* of the latest run: "none" (no run yet), "running", "ok", "failed"
  notices,          \* the alert() calls of the latest run
  lastOp,           \* the event handled last
  download,         \* the file the event handled last emitted through a.click()
  builtins,         \* the properties the page has added to the built-in objects
  paths,            \* generateTree alone: its argument
  treePos,          \* generateTree alone: the files inserted so far
  built,            \* generateTree alone: the root object
  rendered          \* generateTree alone: its result

appVars == <<isProcessing, treeString, combinedContent, fileCount, view, exiting, pc,
             fileList, tree, extractedFiles, idx, pending, readLog, failedIdx, outcome,
             notices, lastOp, download>>

treeVars == <<paths, treePos, built, rendered>>

vars == <<appVars, builtins, treeVars>>

NoBlob == [some |-> FALSE, doc |-> EmptyStr]

NotRendered == [done |-> FALSE, threw |-> FALSE, str |-> EmptyStr]

\* a page that has added nothing to the built-in objects
NoAdditions == [id \in {} |-> EmptyObj]

\* the values a render of the component has read from its state
Rendering(processing, treeStr, content) ==
  [isProcessing |-> processing, treeString |-> treeStr, combinedContent |-> content]

\* no result section is exiting; one is, and the downloadFile its button
\* calls is that of a render whose combinedContent was `content`
NotExiting == [some |-> FALSE, combinedContent |-> EmptyStr]
Exiting(content) == [some |-> TRUE, combinedContent |-> content]

AppInit ==
  /\ isProcessing = FALSE
  /\ treeString = EmptyStr
  /\ combinedContent = EmptyStr
  /\ fileCount = 0
  /\ view = Rendering(FALSE, EmptyStr, EmptyStr)
  /\ exiting = NotExiting
  /\ pc = "idle"
  /\ fileList = << >>
  /\ tree = EmptyStr
  /\ extractedFiles = << >>
  /\ idx = 0
  /\ pending = {}
  /\ readLog = << >>
  /\ failedIdx = 0
  /\ outcome = "none"
  /\ notices = 0
  /\ lastOp = "init"
  /\ download = NoBlob
  /\ builtins = NoAdditions

Init ==
  /\ AppInit
  /\ paths = << >>
  /\ treePos = 0
  /\ built = EmptyObj
  /\ rendered = NotRendered

(***************************************************************************)
(* handleFolderSelect, cut at its await: each action runs the handler from *)
(* one event to the next suspension or to its end, as the event loop does. *)
(* The actions set lastOp, download and failedIdx, which record the event; *)
(* the bodies below set the other variables of the component.              *)
(***************************************************************************)

\* the elements of a set of numbers in ascending order
RECURSIVE AscSeq(_)
AscSeq(S) ==
  IF S = {} THEN << >>
  ELSE LET m == CHOOSE x \in S : \A y \in S : x <= y
       IN  <<m>> \o AscSeq(S \ {m})

\* mutant of StartRead: the reads of all the files left are begun at once
StartRead_All(files, j) == {k \in j..Len(files) : isAllowed(files[k].name)}

\* await readFileContent(file): the one read begun for the file at position j
StartRead(files, j) == {j}

\* the for-of loop from position `from`, then the rest of the try block and
\* the finally block; pend and log are the reads outstanding and begun so far,
\* content0 the document state holds while the run is suspended
LoopFrom(files, tr, from, extracted, pend, log, content0) ==
  LET j == NextAllowed(files, from)
  IN  IF j # 0
      THEN /\ pc' = "await"
           /\ idx' = j
           /\ pending' = pend \cup StartRead(files, j)
           /\ readLog' = log \o AscSeq(StartRead(files, j) \ pend)
           /\ extractedFiles' = extracted
           /\ isProcessing' = TRUE
           /\ combinedContent' = content0
           /\ outcome' = "running"
           /\ UNCHANGED fileCount
      ELSE /\ pc' = "idle"
           /\ idx' = 0
           /\ pending' = pend
           /\ readLog' = log
           /\ extractedFiles' = extracted
           /\ combinedContent' = FinalDoc(tr, extracted)
           /\ fileCount' = Len(extracted)
           /\ isProcessing' = FALSE
           /\ outcome' = "ok"

\* what the built-ins can hold after one more selection, from the additions
\* of S
AdditionsAfter(S) ==
  S \cup {generateTree(files, added).builtins : files \in Selections, added \in S}

RECURSIVE AdditionsClosure(_)
AdditionsClosure(S) ==
  IF AdditionsAfter(S) = S THEN S ELSE AdditionsClosure(AdditionsAfter(S))

\* the additions to the built-ins the page can come to hold
ReachableAdditions == AdditionsClosure({NoAdditions})

\* generateTree, evaluated once for every selection and every state of the
\* built-ins
TreeTable ==
  [x \in Selections \X ReachableAdditions |-> generateTree(x[1], x[2])] @@ << >>

\* the handler from setIsProcessing(true) on, t being what
\* generateTree(fileList) gave
RunWith(files, t) ==
  /\ fileList' = files
  /\ builtins' = t.builtins
  /\ IF t.threw
     THEN /\ treeString' = EmptyStr
          /\ combinedContent' = EmptyStr
          /\ tree' = EmptyStr
          /\ extractedFiles' = << >>
          /\ idx' = 0
          /\ pending' = {}
          /\ readLog' = << >>
          /\ notices' = 1
          /\ isProcessing' = FALSE
          /\ pc' = "idle"
          /\ outcome' = "failed"
          /\ UNCHANGED fileCount
     ELSE /\ treeString' = t.str
          /\ tree' = t.str
          /\ notices' = 0
          /\ LoopFrom(files, t.str, 1, << >>, {}, << >>, EmptyStr)

\* the handler from setIsProcessing(true) on
Run(files) == RunWith(files, TreeTable[<<files, builtins>>])

\* mutant of HandlerBody: only `if (!files) return`, an empty list is run
HandlerBody_NoLengthCheck(files) == Run(files)

\* mutant of HandlerBody: an empty selection clears the results
HandlerBody_ClearOnEmpty(files) ==
  IF files = << >>
  THEN /\ treeString' = EmptyStr
       /\ combinedContent' = EmptyStr
       /\ UNCHANGED <<isProcessing, fileCount, pc, fileList, tree, extractedFiles, idx,
                      pending, readLog, outcome, notices, builtins>>
  ELSE Run(files)

\* if (!files || files.length === 0) return; and the rest of the handler
HandlerBody(files) ==
  IF files = << >>
  THEN UNCHANGED <<isProcessing, treeString, combinedContent, fileCount, pc, fileList,
                   tree, extractedFiles, idx, pending, readLog, outcome, notices,
                   builtins>>
  ELSE Run(files)

\* the render React commits as the change event ends, from the state the
\* handler left.  A result section that was rendered and is rendered no more
\* (treeString became '') is kept mounted by AnimatePresence for its exit
\* animation, with the props of the render it was last part of.
RenderAfterEvent ==
  /\ view' = Rendering(isProcessing', treeString', combinedContent')
  /\ exiting' = IF treeString' # EmptyStr THEN NotExiting
                ELSE IF view.treeString # EmptyStr THEN Exiting(view.combinedContent)
                ELSE exiting

\* a change event of the file input. The input is hidden and opened only by
\* the button, which is rendered disabled while isProcessing.
handleFolderSelect(files) ==
  /\ ~view.isProcessing
  /\ lastOp' = IF files = << >> THEN "selectEmpty" ELSE "select"
  /\ failedIdx' = IF files = << >> THEN failedIdx ELSE 0
  /\ download' = NoBlob
  /\ HandlerBody(files)
  /\ RenderAfterEvent
  /\ UNCHANGED treeVars

\* reader.onload: the await resumes with the text, the loop goes on
OnResolved ==
  /\ LoopFrom(fileList, tree, idx + 1,
              Append(extractedFiles, FileInfo(fileList[idx], fileList[idx].content)),
              pending \ {idx}, readLog, combinedContent)
  /\ UNCHANGED <<fileList, treeString, tree, notices>>

ReadLoad ==
  /\ pc = "await"
  /\ idx \in pending
  /\ lastOp' = "load"
  /\ download' = NoBlob
  /\ UNCHANGED failedIdx
  /\ OnResolved
  /\ UNCHANGED <<view, exiting, builtins>>
  /\ UNCHANGED treeVars

\* mutant of OnRejected: the failed file is skipped and the loop goes on
OnRejected_Skip ==
  /\ LoopFrom(fileList, tree, idx + 1, extractedFiles, pending \ {idx}, readLog,
              combinedContent)
  /\ UNCHANGED <<fileList, treeString, tree, notices>>

\* mutant of OnRejected: no finally block, the flag is not reset
OnRejected_NoFinally ==
  /\ notices' = notices + 1
  /\ pc' = "idle"
  /\ idx' = 0
  /\ pending' = pending \ {idx}
  /\ outcome' = "failed"
  /\ UNCHANGED <<isProcessing, treeString, combinedContent, fileCount, fileList, tree,
                 extractedFiles, readLog>>

\* reader.onerror: the await throws, the catch block alerts, the finally
\* block resets the flag
OnRejected ==
  /\ notices' = notices + 1
  /\ isProcessing' = FALSE
  /\ pc' = "idle"
  /\ idx' = 0
  /\ pending' = pending \ {idx}
  /\ outcome' = "failed"
  /\ UNCHANGED <<treeString, combinedContent, fileCount, fileList, tree,
                 extractedFiles, readLog>>

ReadError ==
  /\ pc = "await"
  /\ idx \in pending
  /\ lastOp' = "error"
  /\ download' = NoBlob
  /\ failedIdx' = idx
  /\ OnRejected
  /\ UNCHANGED <<view, exiting, builtins>>
  /\ UNCHANGED treeVars

\* the render React commits after the handler has set state past an await:
\* these updates are rendered in a later task, not as they are made
Commit ==
  /\ view # Rendering(isProcessing, treeString, combinedContent)
  /\ view' = Rendering(isProcessing, treeString, combinedContent)
  /\ lastOp' = "render"
  /\ download' = NoBlob
  /\ UNCHANGED <<isProcessing, treeString, combinedContent, fileCount, exiting, pc,
                 fileList, tree, extractedFiles, idx, pending, readLog, failedIdx,
                 outcome, notices, builtins>>
  /\ UNCHANGED treeVars

\* the exit animation ends: AnimatePresence unmounts the section
ExitComplete ==
  /\ exiting.some
  /\ exiting' = NotExiting
  /\ lastOp' = "exitComplete"
  /\ download' = NoBlob
  /\ UNCHANGED <<isProcessing, treeString, combinedContent, fileCount, view, pc,
                 fileList, tree, extractedFiles, idx, pending, readLog, failedIdx,
                 outcome, notices, builtins>>
  /\ UNCHANGED treeVars

\* the file downloadFile emits: none when combinedContent is ''
EmittedBlob(content) ==
  IF content = EmptyStr THEN NoBlob ELSE [some |-> TRUE, doc |-> content]

\* downloadFile as a render defined it: `content` is the combinedContent of
\* that render
downloadFile(content) ==
  /\ lastOp' = "click"
  /\ download' = EmittedBlob(content)
  /\ UNCHANGED <<isProcessing, treeString, combinedContent, fileCount, view, exiting,
                 pc, fileList, tree, extractedFiles, idx, pending, readLog, failedIdx,
                 outcome, notices, builtins>>
  /\ UNCHANGED treeVars

\* a click on the download button of the result section, which is rendered
\* while treeString is non-empty
ClickDownload ==
  /\ view.treeString # EmptyStr
  /\ downloadFile(view.combinedContent)

\* a click on the download button of a result section that is exiting
ClickExiting ==
  /\ exiting.some
  /\ downloadFile(exiting.combinedContent)

Select == \E files \in Selections : handleFolderSelect(files)

Next ==
  \/ Select
  \/ ReadLoad
  \/ ReadError
  \/ Commit
  \/ ExitComplete
  \/ ClickDownload
  \/ ClickExiting

Spec == Init /\ [][Next]_vars

\* every read that was started settles: FileReader fires onload or onerror
FairSpec == Spec /\ WF_vars(ReadLoad \/ ReadError)

(***************************************************************************)
(* generateTree alone, on file lists in every order                        *)
(***************************************************************************)

InitTree ==
  /\ AppInit
  /\ paths \in TreeInputs
  /\ treePos = 0
  /\ built = EmptyObj
  /\ rendered = NotRendered

\* what one turn of files.forEach leaves, from the heap it ended with
Inserted(heap) ==
  /\ built' = heap.root
  /\ builtins' = heap.builtins
  /\ rendered' = IF heap.threw
                 THEN [done |-> TRUE, threw |-> TRUE, str |-> EmptyStr]
                 ELSE rendered

\* one turn of files.forEach; a TypeError ends the call
InsertFile ==
  /\ treePos < Len(paths)
  /\ ~rendered.done
  /\ treePos' = treePos + 1
  /\ Inserted(InsertParts(AtRoot([root |-> built, builtins |-> builtins, threw |-> FALSE]),
                          Split(PathOf(paths[treePos + 1])), 1))
  /\ UNCHANGED paths
  /\ UNCHANGED appVars

\* generateTree returns or throws, res being what RenderRoot gave
Returned(res) == rendered' = [done |-> TRUE, threw |-> res.threw, str |-> res.str]

\* the rest of generateTree
Render ==
  /\ treePos = Len(paths)
  /\ ~rendered.done
  /\ Returned(RenderRoot([root |-> built, builtins |-> builtins, threw |-> FALSE]))
  /\ UNCHANGED <<paths, treePos, built, builtins>>
  /\ UNCHANGED appVars

NextTree == InsertFile \/ Render

SpecTree == InitTree /\ [][NextTree]_vars

(***************************************************************************)
(* The specification's side of the properties: the allow-list as the       *)
(* specification states it, and the nodes the paths of a list name.        *)
(***************************************************************************)

\* the suffixes of the allow-list: .css .php .js .htaccess .html .ts .tsx .json
SpecSuffixes ==
  { <<46, 99, 115, 115>>, <<46, 112, 104, 112>>, <<46, 106, 115>>,
    <<46, 104, 116, 97, 99, 99, 101, 115, 115>>, <<46, 104, 116, 109, 108>>,
    <<46, 116, 115>>, <<46, 116, 115, 120>>, <<46, 106, 115, 111, 110>> }

\* the name ends with a listed suffix, or is exactly '.htaccess'
Matches(nm) ==
  \/ \E suf \in SpecSuffixes :
       /\ Len(nm) >= Len(suf)
       /\ \A i \in 1..Len(suf) : nm[Len(nm) - Len(suf) + i] = suf[i]
  \/ nm = <<46, 104, 116, 97, 99, 99, 101, 115, 115>>

\* the positions of the matched files of a file list, ascending
MatchedIdx(files) == AscSeq({i \in 1..Len(files) : Matches(files[i].name)})

\* the matched files of a file list with their text, in input order
MatchedInfos(files) ==
  [k \in 1..Len(MatchedIdx(files)) |->
     [path    |-> PathOf(files[MatchedIdx(files)[k]]),
      content |-> files[MatchedIdx(files)[k]].content,
      name    |-> files[MatchedIdx(files)[k]].name]]

Range(f) == {f[i] : i \in DOMAIN f}

\* the orderings of a sequence of distinct elements
Perms(q) == {r \in [1..Len(q) -> Range(q)] : Range(r) = Range(q)}

\* the segments of the path of the i-th file
PartsOf(files, i) == Split(PathOf(files[i]))

\* a is a proper prefix of b, segment by segment
ProperPrefix(a, b) == Len(a) < Len(b) /\ SubSeq(b, 1, Len(a)) = a

\* all the paths have two segments or more and the same first one
CommonRoot(files) ==
  \A i \in 1..Len(files) :
    /\ Len(PartsOf(files, i)) >= 2
    /\ PartsOf(files, i)[1] = PartsOf(files, 1)[1]

\* the node the segments q lead to from obj, or Missing
Missing == [isNull |-> FALSE, keys |-> << >>, val |-> << >>, missing |-> TRUE]

RECURSIVE NodeAt(_, _)
NodeAt(obj, q) ==
  IF q = << >> THEN obj
  ELSE IF obj.isNull \/ ~HasOwn(obj, q[1]) THEN Missing
  ELSE NodeAt(obj.val[q[1]], Tail(q))

(***************************************************************************)
(* C1                                                                      *)
(***************************************************************************)

\* C1: once a file's read has failed in a run, the run is over: no read is
\* outstanding, the failed read is the last one the run started (no later
\* file is read), the stored document is empty and no document is emitted.
C1_ReadFailureAborts ==
  failedIdx # 0 =>
    /\ pc = "idle"
    /\ pending = {}
    /\ readLog # << >>
    /\ readLog[Len(readLog)] = failedIdx
    /\ combinedContent = EmptyStr
    /\ ~download.some

\* a run whose first file was read, whose second file failed and whose third
\* file, a matched one, was left unread
C1_Witness ==
  /\ failedIdx = 2
  /\ Len(extractedFiles) = 1
  /\ Len(fileList) = 3
  /\ Matches(fileList[3].name)

(***************************************************************************)
(* C2                                                                      *)
(***************************************************************************)

\* C2: after a run in which a read failed has ended, the result state holds
\* nothing of that run: the tree string and the document string are empty.
C2_FailedRunDiscarded ==
  (pc = "idle" /\ failedIdx # 0) =>
    (treeString = EmptyStr /\ combinedContent = EmptyStr)

(***************************************************************************)
(* C3                                                                      *)
(***************************************************************************)

\* C3 as stated: after an empty selection is handled, in any state, the tree
\* string and the document string are empty, the count is 0 and no notice
\* was raised.
C3_EmptySelectionYieldsEmpty ==
  lastOp = "selectEmpty" =>
    /\ treeString = EmptyStr
    /\ combinedContent = EmptyStr
    /\ fileCount = 0

\* C3 amended: after an empty selection is handled before any non-empty
\* selection, the tree string and the document string are empty, the count
\* is 0, no run is under way and no notice was raised.
C3_EmptySelectionFirst ==
  (lastOp = "selectEmpty" /\ fileList = << >>) =>
    /\ treeString = EmptyStr
    /\ combinedContent = EmptyStr
    /\ fileCount = 0
    /\ notices = 0
    /\ ~isProcessing
    /\ pc = "idle"

C3_Witness == lastOp = "selectEmpty" /\ fileList = << >> /\ outcome = "none"

(***************************************************************************)
(* C4                                                                      *)
(***************************************************************************)

\* C4: handling an empty selection changes neither the flag nor the three
\* results, starts no read and raises no notice.
C4_EmptySelectionNoOp ==
  [][lastOp' = "selectEmpty" =>
       UNCHANGED <<isProcessing, treeString, combinedContent, fileCount, pc,
                   pending, readLog, notices>>]_vars

\* an empty selection handled while the results of a run are stored
C4_Witness ==
  /\ lastOp = "selectEmpty"
  /\ treeString # EmptyStr
  /\ combinedContent # EmptyStr
  /\ fileCount > 0

(***************************************************************************)
(* C5                                                                      *)
(***************************************************************************)

\* C5, for the lists the specification calls normal, those whose paths share
\* their first segment: generateTree returns the same string for every
\* ordering of the list.
C5_OrderIndependent ==
  (rendered.done /\ CommonRoot(paths)) =>
    \A q \in Perms(paths) :
      /\ generateTree(q, NoAdditions).threw = rendered.threw
      /\ generateTree(q, NoAdditions).str = rendered.str

(***************************************************************************)
(* C6                                                                      *)
(***************************************************************************)

\* C6: after a run that ended without failure, the files extracted are the
\* matched files of the input in input order, the stored document is the
\* header and their blocks in that order, and the count is their number.
C6_MatchedFilesInOrder ==
  (pc = "idle" /\ outcome = "ok") =>
    /\ extractedFiles = MatchedInfos(fileList)
    /\ combinedContent = DocHeader(treeString) \o FileBlocks(MatchedInfos(fileList), 1)
    /\ fileCount = Len(MatchedIdx(fileList))

\* a finished run over three files, the middle one not matched
C6_Witness ==
  /\ pc = "idle"
  /\ outcome = "ok"
  /\ Len(fileList) = 3
  /\ ~Matches(fileList[2].name)
  /\ fileCount = 2

(***************************************************************************)
(* C7                                                                      *)
(***************************************************************************)

\* C7: at most one read is outstanding; the reads a run has started are the
\* first matched files of the input, in input order, and no other file; and
\* all but the last of them have completed successfully.
C7_SequentialReads ==
  /\ Cardinality(pending) <= 1
  /\ (pc = "await") = (pending # {})
  /\ Len(readLog) <= Len(MatchedIdx(fileList))
  /\ readLog = SubSeq(MatchedIdx(fileList), 1, Len(readLog))
  /\ Len(readLog) =
       Len(extractedFiles) + Cardinality(pending) + (IF failedIdx # 0 THEN 1 ELSE 0)
  /\ \A k \in 1..Len(extractedFiles) :
       extractedFiles[k].path = PathOf(fileList[readLog[k]])
  /\ \A j \in pending : readLog # << >> /\ j = readLog[Len(readLog)]

\* the read of the third file is outstanding, the first file was read and
\* the second, not matched, was passed over
C7_Witness ==
  /\ pc = "await"
  /\ readLog = <<1, 3>>
  /\ pending = {3}
  /\ Len(extractedFiles) = 1

(***************************************************************************)
(* C8                                                                      *)
(***************************************************************************)

\* C8: the flag is true exactly while a run is suspended at a read; a run
\* that failed has raised one notice and a run that did not has raised none;
\* and, every started read settling, a run under way ends with the flag
\* reset to false.
C8_FlagReset ==
  /\ [](isProcessing = (pc = "await"))
  /\ []((pc = "idle" /\ outcome = "failed") => notices = 1)
  /\ [](outcome \in {"running", "ok"} => notices = 0)
  /\ ((pc = "await") ~> (pc = "idle" /\ ~isProcessing))

\* a run ended by a failed read: one notice, the flag reset
C8_Witness ==
  /\ lastOp = "error"
  /\ failedIdx # 0
  /\ notices = 1
  /\ ~isProcessing
  /\ pc = "idle"

(***************************************************************************)
(* C9                                                                      *)
(***************************************************************************)

\* the kind the last insertion gave to the node q among the first n paths:
\* TRUE when the last path that names q names it as a file
LastWriteIsFile(q, n) ==
  LET touching == {i \in 1..n : PartsOf(paths, i) = q \/ ProperPrefix(q, PartsOf(paths, i))}
      last == CHOOSE i \in touching : \A j \in touching : j <= i
  IN  PartsOf(paths, last) = q

\* C9 as stated: a name inserted both as a file and as a directory is left
\* as the later of the two insertions made it.
C9_LastWriteWins ==
  \A i, j \in 1..treePos :
    ProperPrefix(PartsOf(paths, i), PartsOf(paths, j)) =>
      NodeAt(built, PartsOf(paths, i)).isNull = LastWriteIsFile(PartsOf(paths, i), treePos)

(***************************************************************************)
(* C10                                                                     *)
(***************************************************************************)

\* C10: a file downloadFile emits is the whole document of the latest
\* non-empty selection, whose run has ended without failure; a click while a
\* run is under way or after the latest run failed emits nothing.
C10_DownloadIsLatestDocument ==
  /\ download.some =>
       /\ lastOp = "click"
       /\ pc = "idle"
       /\ outcome = "ok"
       /\ download.doc = DocHeader(tree) \o FileBlocks(MatchedInfos(fileList), 1)
  /\ (lastOp = "click" /\ (pc = "await" \/ outcome = "failed")) => ~download.some
=============================================================================
